---- MODULE Spec2Model ----
(***************************************************************************)
(* Model of src/mlp.py: the MLP class (construction, forward, backward,    *)
(* weight_decay, fit, predict) with its five learning modes.               *)
(*                                                                         *)
(* Numbers.  numpy's floating point numbers are modelled by the elements   *)
(* of the prime field Z_P: +, -, * and / are the field operations, so      *)
(* every identity between polynomial expressions of the program's values   *)
(* is kept, and the comparisons "> 0" read the representative of least     *)
(* absolute value (Signed).  A matrix is a sequence of rows.               *)
(*                                                                         *)
(* Indices.  Python counts layers and cached activations from 0, the model *)
(* from 1: the code's weights[i], funcs[i], activations[i], deltas[i] are  *)
(* weights[i+1], funcs[i+1], activations[i+1], deltas[i+1] here.           *)
(***************************************************************************)
EXTENDS Integers, Sequences, FiniteSets, TLC

\* ------------------------------------------------------------------ bounds
\* the largest n_epoch a fit call is given
MaxEpoch == 2
\* the largest batchsize a fit call is given
MaxBatch == 2
\* the number of fit calls made on one model
MaxFits == 2
\* the largest input_dim and ch_out a constructor call is given
MaxDim == 2
\* the longest list of layers a constructor call is given
MaxLayers == 2
\* the number of seeds the random generator is started from
MaxSeed == 1
\* the number of samples of the training set
N_train == 3

\* the modulus of the field that stands for the floating point numbers
P == 101

\* ------------------------------------------------------------- arithmetic
Val == 0 .. (P - 1)

Add(a, b) == (a + b) % P

Sub(a, b) == (a + P - b) % P

Mul(a, b) == (a * b) % P

\* 1 / a, for a # 0
InvTable == [a \in 1 .. (P - 1) |-> CHOOSE x \in 1 .. (P - 1) : Mul(a, x) = 1]

Inv(a) == InvTable[a]

\* a ** k
RECURSIVE Pow(_, _)
Pow(a, k) == IF k = 0 THEN 1 ELSE Mul(a, Pow(a, k - 1))

\* the number a value stands for when it is compared with 0
Signed(v) == IF v > P \div 2 THEN v - P ELSE v

\* ---------------------------------------------------------------- matrices
Rows(m) == Len(m)

Cols(m) == Len(m[1])

shape(m) == <<Rows(m), Cols(m)>>

\* the matrix m as a sequence of sequences: its entries are computed here, once
Matrix(m) == SubSeq([r \in 1 .. Len(m) |-> SubSeq(m[r], 1, Len(m[r]))], 1, Len(m))

\* m.T
T(m) ==
    Matrix(
        [c \in 1 .. Cols(m) |-> [r \in 1 .. Rows(m) |-> m[r][c]]])

RECURSIVE DotSum(_, _, _, _, _)
DotSum(a, b, r, c, k) ==
    IF k = 0 THEN 0 ELSE Add(Mul(a[r][k], b[k][c]), DotSum(a, b, r, c, k - 1))

\* np.dot(a, b), for Cols(a) = Rows(b)
Dot(a, b) ==
    Matrix(
        [r \in 1 .. Rows(a) |-> [c \in 1 .. Cols(b) |-> DotSum(a, b, r, c, Cols(a))]])

\* a + b, a - b, a * b element by element, and the product with a scalar
MatAdd(a, b) ==
    Matrix(
        [r \in 1 .. Rows(a) |-> [c \in 1 .. Cols(a) |-> Add(a[r][c], b[r][c])]])

MatSub(a, b) ==
    Matrix(
        [r \in 1 .. Rows(a) |-> [c \in 1 .. Cols(a) |-> Sub(a[r][c], b[r][c])]])

Hadamard(a, b) ==
    Matrix(
        [r \in 1 .. Rows(a) |-> [c \in 1 .. Cols(a) |-> Mul(a[r][c], b[r][c])]])

Scale(s, a) ==
    Matrix(
        [r \in 1 .. Rows(a) |-> [c \in 1 .. Cols(a) |-> Mul(s, a[r][c])]])

\* np.eye(n) * s
Eye(n, s) ==
    Matrix(
        [r \in 1 .. n |-> [c \in 1 .. n |-> IF r = c THEN s ELSE 0]])

\* w[:, :-1]: every column but the last, the bias column
NoBias(w) ==
    Matrix(
        [r \in 1 .. Rows(w) |-> SubSeq(w[r], 1, Cols(w) - 1)])

\* the matrix a without row i and column j
Minor(a, i, j) ==
    Matrix(
        [r \in 1 .. (Rows(a) - 1) |->
            [c \in 1 .. (Cols(a) - 1) |->
                a[IF r < i THEN r ELSE r + 1][IF c < j THEN c ELSE c + 1]]])

RECURSIVE Det(_)
RECURSIVE DetSum(_, _)
DetSum(a, j) ==
    IF j = 0 THEN 0
    ELSE LET term == Mul(a[1][j], Det(Minor(a, 1, j)))
         IN  IF j % 2 = 1 THEN Add(DetSum(a, j - 1), term)
             ELSE Sub(DetSum(a, j - 1), term)

Det(a) == IF Rows(a) = 0 THEN 1 ELSE DetSum(a, Rows(a))

Cofactor(a, i, j) ==
    IF (i + j) % 2 = 0 THEN Det(Minor(a, i, j)) ELSE Sub(0, Det(Minor(a, i, j)))

\* np.linalg.inv(a) raises LinAlgError for a singular matrix
Singular(a) == Det(a) = 0

\* np.linalg.inv(a), for a square matrix that is not singular
inv(a) ==
    Matrix(
    [r \in 1 .. Rows(a) |->
            [c \in 1 .. Rows(a) |-> Mul(Cofactor(a, c, r), Inv(Det(a)))]])

\* ------------------------------------------------------------- activations
\* the dXXX functions take z = f(y), the output of f
relu(y) == IF Signed(y) > 0 THEN y ELSE 0

drelu(z) == IF Signed(z) > 0 THEN 1 ELSE 0

identity(y) == y

didentity(z) == 1

\* the names of activation_funcs whose functions are field operations or
\* comparisons with 0 (sigmoid and tanh need exp)
activation_funcs == {"relu", "identity"}

\* activation_funcs[name][0] applied to the matrix y
f(name, y) ==
    Matrix(
    [r \in 1 .. Rows(y) |->
            [c \in 1 .. Cols(y) |->
                IF name = "relu" THEN relu(y[r][c]) ELSE identity(y[r][c])]])

\* activation_funcs[name][1] applied to the matrix z (didentity's scalar 1.0 is
\* broadcast over the shape of z)
df(name, z) ==
    Matrix(
    [r \in 1 .. Rows(z) |->
            [c \in 1 .. Cols(z) |->
                IF name = "relu" THEN drelu(z[r][c]) ELSE didentity(z[r][c])]])

\* -------------------------------------------------------------------- loss
RECURSIVE SumSeq(_, _)
SumSeq(s, k) == IF k = 0 THEN 0 ELSE Add(s[k], SumSeq(s, k - 1))

\* m.sum()
MatSum(m) == SumSeq([r \in 1 .. Rows(m) |-> SumSeq(m[r], Cols(m))], Rows(m))

\* 0.5 * (y_pred - y_true)**2
mse_loss(y_pred, y_true) ==
    Scale(Inv(2), Hadamard(MatSub(y_pred, y_true), MatSub(y_pred, y_true)))

mse_loss_prime(y_pred, y_true) == MatSub(y_pred, y_true)

\* row.argmax(): the first index (from 0) of the greatest value of the row
argmax(row) ==
    CHOOSE k \in 1 .. Len(row) :
        /\ \A j \in 1 .. Len(row) : Signed(row[j]) <= Signed(row[k])
        /\ \A j \in 1 .. (k - 1) : Signed(row[j]) < Signed(row[k])

\* np.count_nonzero(ys.argmax(axis=1) == ps.argmax(axis=1))
count_correct(ys, ps) ==
    Cardinality({r \in 1 .. Rows(ys) : argmax(ys[r]) = argmax(ps[r])})

\* ----------------------------------------------------------------- utility
add_bias(x) ==
    Matrix(
        [r \in 1 .. Rows(x) |-> Append(x[r], 1)])

\* eps = 1.0e-3
eps == Inv(1000 % P)

\* the matrix pseudo_inverse(w) hands to np.linalg.inv
pseudo_inverse_arg(w) ==
    IF Rows(w) <= Cols(w)
    THEN MatAdd(Dot(w, T(w)), Eye(Rows(w), eps))
    ELSE MatAdd(Dot(T(w), w), Eye(Cols(w), eps))

pseudo_inverse(w) ==
    IF Rows(w) <= Cols(w)
    THEN Dot(T(w), inv(pseudo_inverse_arg(w)))
    ELSE Dot(inv(pseudo_inverse_arg(w)), T(w))

\* ----------------------------------------------------------------- forward
\* self.activations after forward(xs_batch): the batch, then every layer's
\* output
RECURSIVE forward_upto(_, _, _, _)
forward_upto(ws, fs, xs_batch, l) ==
    IF l = 0 THEN <<xs_batch>>
    ELSE LET acts == forward_upto(ws, fs, xs_batch, l - 1)
             x == add_bias(acts[Len(acts)])
             z == f(fs[l], Dot(x, T(ws[l])))
         IN  Append(acts, z)

forward(ws, fs, xs_batch) == forward_upto(ws, fs, xs_batch, Len(ws))

\* ---------------------------------------------------------------- backward
LearningModes == {"BP", "PI", "FA", "FA-PI-W", "FA-PI-B"}

FeedbackModes == {"FA", "FA-PI-W", "FA-PI-B"}

\* the transport matrix of layer l
transport(mode, ws, bws, l) ==
    IF mode = "BP" THEN NoBias(ws[l])
    ELSE IF mode = "PI" THEN T(pseudo_inverse(NoBias(ws[l])))
    ELSE bws[l]

\* whether backward's first loop raises: in the mode PI np.linalg.inv is
\* called for every layer
transport_raises(mode, ws) ==
    /\ mode = "PI"
    /\ \E l \in 1 .. Len(ws) : Singular(pseudo_inverse_arg(NoBias(ws[l])))

\* the list deltas after backward's first loop and deltas.reverse(): the
\* code's deltas[len(weights)] is the delta backward was given, and its
\* deltas[i] = df_i(activations[i]) * np.dot(deltas[i + 1], transport_i)
RECURSIVE deltas_from(_, _, _, _, _, _, _)
deltas_from(mode, ws, bws, fs, acts, delta, l) ==
    IF l = Len(ws) + 1 THEN <<delta>>
    ELSE LET rest == deltas_from(mode, ws, bws, fs, acts, delta, l + 1)
             d == Hadamard(df(fs[l], acts[l]),
                           Dot(rest[1], transport(mode, ws, bws, l)))
         IN  <<d>> \o rest

backward_deltas(mode, ws, bws, fs, acts, delta) ==
    deltas_from(mode, ws, bws, fs, acts, delta, 1)

\* diff = np.dot(delta.T, add_bias(self.activations[i])) for the code's layer
\* i = l - 1, whose delta is the code's deltas[1:][i], that is deltas[l + 1] here
backward_diff(ds, acts, l) == Dot(T(ds[l + 1]), add_bias(acts[l]))

\* ------------------------------------------------------------ weight decay
\* a weight decay that does not spare the bias column: w *= decay
decay_matrix_with_bias(w, decay) == Scale(decay, w)

\* w[:, :-1] *= decay for one weight matrix
decay_matrix(w, decay) ==
    Matrix(
        [r \in 1 .. Rows(w) |->
            [c \in 1 .. Cols(w) |-> IF c < Cols(w) THEN Mul(w[r][c], decay) ELSE w[r][c]]])

\* self.weight_decay(decay)
weight_decay(ws, decay) == [l \in 1 .. Len(ws) |-> decay_matrix(ws[l], decay)]

\* ------------------------------------------------------------ construction
\* The constructor is followed on the shapes of its matrices: a shape is
\* <<rows, columns>>, and the shape of an operation numpy rejects is BadShape.
BadShape == <<-1, -1>>

\* np.random.randn(r, c)
randn_shape(r, c) == <<r, c>>

T_shape(a) == IF a = BadShape THEN BadShape ELSE <<a[2], a[1]>>

dot_shape(a, b) ==
    IF a = BadShape \/ b = BadShape \/ a[2] # b[1] THEN BadShape ELSE <<a[1], b[2]>>

\* a + b for two matrices of one shape
add_shape(a, b) == IF a = BadShape \/ a # b THEN BadShape ELSE a

inv_shape(a) == IF a = BadShape \/ a[1] # a[2] THEN BadShape ELSE a

eye_shape(n) == <<n, n>>

\* w[:, :-1]
nobias_shape(a) == IF a = BadShape THEN BadShape ELSE <<a[1], a[2] - 1>>

\* np.hstack([x, np.ones((x.shape[0], 1))])
add_bias_shape(a) == IF a = BadShape THEN BadShape ELSE <<a[1], a[2] + 1>>

\* x / (np.var(x) * n)
normalize_xavier_shape(a) == a

\* a pseudo inverse that comes out in the shape of w, not of w.T
pseudo_inverse_shape_of_w(w) == w

pseudo_inverse_shape(w) ==
    IF w = BadShape THEN BadShape
    ELSE IF w[1] <= w[2]
    THEN dot_shape(T_shape(w),
                   inv_shape(add_shape(dot_shape(w, T_shape(w)), eye_shape(w[1]))))
    ELSE dot_shape(inv_shape(add_shape(dot_shape(T_shape(w), w), eye_shape(w[2]))),
                   T_shape(w))

\* the keys of activation_funcs and of loss_funcs
activation_types == {"sigmoid", "tanh", "relu", "identity"}

loss_types == {"mse", "softmax_cross_entropy"}

\* one pass of the constructor's loop over a layer (ch_out, activation_type,
\* is_updatable) with ch_in inputs: the shape of w, whether the pass appends a
\* b to backward_weights and its shape, and the exception the pass raises
init_layer(learning, ch_in, ch_out) ==
    LET w == normalize_xavier_shape(randn_shape(ch_out, ch_in + 1))
    IN  IF learning \in {"BP", "PI"}
        THEN [raises |-> "none", w |-> w, has_b |-> FALSE, b |-> BadShape]
        ELSE IF learning = "FA"
        THEN [raises |-> "none", w |-> w, has_b |-> TRUE,
              b |-> normalize_xavier_shape(randn_shape(ch_out, ch_in))]
        ELSE IF learning = "FA-PI-W"
        THEN [raises |-> "none", w |-> w, has_b |-> TRUE,
              b |-> normalize_xavier_shape(
                        T_shape(pseudo_inverse_shape(nobias_shape(w))))]
        ELSE IF learning = "FA-PI-B"
        THEN LET b == normalize_xavier_shape(randn_shape(ch_out, ch_in))
             IN  [raises |-> "none",
                  w |-> add_bias_shape(normalize_xavier_shape(
                            T_shape(pseudo_inverse_shape(b)))),
                  has_b |-> TRUE, b |-> b]
        ELSE [raises |-> "RuntimeError", w |-> w, has_b |-> FALSE, b |-> BadShape]

\* ------------------------------------------------------------------- state
VARIABLES
    \* the constructor call: its arguments, its position and its locals
    ctor,
    \* the attributes of the object under construction, matrices as shapes
    obj,
    \* the attributes of a constructed MLP
    learning, funcs, updateable, weights, backward_weights, activations, fit_log,
    \* the arguments of fit
    args,
    \* the position in fit and its locals
    pc, iepoch, i, total_samples, loss, acc, accum_batch_samples, log,
    delta, deltas, ui, diff,
    \* the number of fit calls made, whether KeyboardInterrupt was raised in
    \* the running call, and the state of numpy's random generator
    nfits, interrupted, rng,
    \* history: the weights at construction, the weights when backward
    \* returned, and the numbers of backward and weight_decay calls of the
    \* running fit call that returned
    weights0, w_pre, n_backward, n_decay

ctorVars == <<ctor, obj>>

modelVars == <<learning, funcs, updateable, weights, backward_weights, activations, fit_log>>

localVars == <<pc, iepoch, i, total_samples, loss, acc, accum_batch_samples, log,
               delta, deltas, ui, diff>>

histVars == <<weights0, w_pre, n_backward, n_decay>>

fitVars == <<modelVars, args, localVars, nfits, interrupted, rng, histVars>>

vars == <<ctorVars, fitVars>>

\* ------------------------------------------------- the constructor's steps
\* a learning mode name that is none of the five
OtherModes == {"XX"}

\* an activation name and a loss name that are no keys of the registries
OtherNames == {"bogus"}

LayerSpecs ==
    (1 .. MaxDim) \X ({"relu", "tanh"} \cup OtherNames) \X BOOLEAN

RECURSIVE SeqsUpTo(_, _)
SeqsUpTo(S, n) ==
    IF n = 0 THEN {<<>>}
    ELSE LET shorter == SeqsUpTo(S, n - 1)
         IN  shorter \cup {Append(q, x) : q \in {t \in shorter : Len(t) = n - 1}, x \in S}

NoCall ==
    [pc |-> "new", input_dim |-> 0, layers |-> <<>>, loss_type |-> "", learning |-> "",
     ch_in |-> 0, k |-> 0, raised |-> "none"]

NoObject ==
    [backward_weights |-> <<>>, weights |-> <<>>, updateable |-> <<>>, funcs |-> <<>>,
     loss |-> "unset", learning |-> "unset"]

\* MLP(input_dim, layers, loss_type, learning): lines 70-74
CtorCall ==
    /\ ctor.pc = "new"
    /\ \E input_dim \in 1 .. MaxDim, layers \in SeqsUpTo(LayerSpecs, MaxLayers),
          loss_type \in {"mse"} \cup OtherNames,
          mode \in LearningModes \cup OtherModes :
          ctor' = [pc |-> "loop", input_dim |-> input_dim, layers |-> layers,
                   loss_type |-> loss_type, learning |-> mode,
                   ch_in |-> input_dim, k |-> 1, raised |-> "none"]
    /\ obj' = NoObject
    /\ UNCHANGED fitVars

\* one pass of the loop over layers: lines 75-109
CtorLayer ==
    /\ ctor.pc = "loop"
    /\ ctor.k <= Len(ctor.layers)
    /\ LET ch_out == ctor.layers[ctor.k][1]
           activation_type == ctor.layers[ctor.k][2]
           is_updatable == ctor.layers[ctor.k][3]
           r == init_layer(ctor.learning, ctor.ch_in, ch_out)
           appended == [obj EXCEPT
                           !.backward_weights =
                               IF r.has_b THEN Append(@, r.b) ELSE @,
                           !.weights = Append(@, r.w),
                           !.updateable = Append(@, is_updatable)]
       IN  IF r.raises # "none"
           THEN /\ ctor' = [ctor EXCEPT !.pc = "raised", !.raised = r.raises]
                /\ obj' = obj
           ELSE IF r.w = BadShape \/ (r.has_b /\ r.b = BadShape)
           THEN /\ ctor' = [ctor EXCEPT !.pc = "raised", !.raised = "ValueError"]
                /\ obj' = obj
           ELSE IF activation_type \notin activation_types
           THEN /\ ctor' = [ctor EXCEPT !.pc = "raised", !.raised = "KeyError"]
                /\ obj' = appended
           ELSE /\ ctor' = [ctor EXCEPT !.ch_in = ch_out, !.k = @ + 1]
                /\ obj' = [appended EXCEPT !.funcs = Append(@, activation_type)]
    /\ UNCHANGED fitVars

\* after the loop: lines 110-112
CtorFinish ==
    /\ ctor.pc = "loop"
    /\ ctor.k > Len(ctor.layers)
    /\ IF ctor.loss_type \notin loss_types
       THEN /\ ctor' = [ctor EXCEPT !.pc = "raised", !.raised = "KeyError"]
            /\ obj' = obj
       ELSE /\ ctor' = [ctor EXCEPT !.pc = "built"]
            /\ obj' = [obj EXCEPT !.loss = ctor.loss_type, !.learning = ctor.learning]
    /\ UNCHANGED fitVars

\* ------------------------------------------------------------ the data set
\* the number of classes: the width of the one-hot targets
n_classes == 2

\* feature d of sample n: one of 0, 1, -1
feature(n, d) == LET v == (n + 2 * d) % 3 IN IF v = 2 THEN Sub(0, 1) ELSE v

\* the rows n of the feature matrix and of the one-hot target matrix
xs_rows(idx, input_dim) ==
    Matrix(
        [k \in 1 .. Len(idx) |-> [d \in 1 .. input_dim |-> feature(idx[k], d)]])

ys_rows(idx) ==
    Matrix(
    [k \in 1 .. Len(idx) |->
            [c \in 1 .. n_classes |-> IF c = (idx[k] % n_classes) + 1 THEN 1 ELSE 0]])

\* the samples of the validation (and test) set, after those of the training set
validation_samples == <<N_train + 1, N_train + 2>>

\* --------------------------------------------------------- numpy's generator
\* np.random.randn(r, c) in the generator state g, and the state after a draw
randn(r, c, g) ==
    Matrix(
        [x \in 1 .. r |->
            [y \in 1 .. c |-> (7 * g * g + (g + 1) * (3 * x + 5 * y + 1) + x * x * y) % P]])

next_rng(g) == (5 * g + 3) % 16

\* ------------------------------------------------- the models that are fitted
\* input_dim and layers of the constructor calls whose models are fitted: the
\* last layer has n_classes outputs
Topologies ==
    { [input_dim |-> 1,
       layers |-> << <<2, "relu", TRUE>>, <<n_classes, "identity", TRUE>> >>],
      [input_dim |-> 1,
       layers |-> << <<1, "relu", FALSE>>, <<n_classes, "identity", TRUE>> >>],
      [input_dim |-> 2,
       layers |-> << <<n_classes, "relu", TRUE>> >>] }

\* ch_in of layer l
layer_ch_in(top, l) == IF l = 1 THEN top.input_dim ELSE top.layers[l - 1][1]

\* w[:, :-1] *= 0
zero_nobias(w) ==
    Matrix(
        [r \in 1 .. Rows(w) |-> [c \in 1 .. Cols(w) |-> IF c < Cols(w) THEN 0 ELSE w[r][c]]])

\* the w and b of a layer after the constructor's pass over it, which starts in
\* the generator state g: w is drawn first and, in FA and FA-PI-B, b second
\* (normalize_xavier divides by the positive number np.var(x) * n: the entries
\* drawn stand for the divided ones)
init_w(mode, ch_in, ch_out, g) ==
    IF mode = "FA" THEN zero_nobias(randn(ch_out, ch_in + 1, g))
    ELSE IF mode = "FA-PI-B"
    THEN add_bias(T(pseudo_inverse(randn(ch_out, ch_in, next_rng(g)))))
    ELSE randn(ch_out, ch_in + 1, g)

init_b(mode, ch_in, ch_out, g) ==
    IF mode = "FA-PI-W"
    THEN T(pseudo_inverse(NoBias(randn(ch_out, ch_in + 1, g))))
    ELSE randn(ch_out, ch_in, next_rng(g))

\* whether the constructor's pass over the layer raises LinAlgError
init_raises(mode, ch_in, ch_out, g) ==
    \/ /\ mode = "FA-PI-W"
       /\ Singular(pseudo_inverse_arg(NoBias(randn(ch_out, ch_in + 1, g))))
    \/ /\ mode = "FA-PI-B"
       /\ Singular(pseudo_inverse_arg(randn(ch_out, ch_in, next_rng(g))))

\* the generator state in which the pass over layer l starts
RECURSIVE layer_rng(_, _, _)
layer_rng(mode, seed, l) ==
    IF l = 1 THEN seed
    ELSE IF mode \in {"FA", "FA-PI-B"}
    THEN next_rng(next_rng(layer_rng(mode, seed, l - 1)))
    ELSE next_rng(layer_rng(mode, seed, l - 1))

NoArgs ==
    [batchsize |-> 0, n_epoch |-> 0, learning_rate |-> 0, gradient_noise |-> 0,
     weight_decay |-> 0, validation |-> "none"]

NoDiff == [layer |-> 0, value |-> <<>>]

\* the state after MLP(top.input_dim, top.layers, "mse", mode)
InitFit ==
    /\ ctor = NoCall
    /\ obj = NoObject
    /\ \E top \in Topologies, mode \in LearningModes, seed \in 1 .. MaxSeed :
          LET L == Len(top.layers) IN
          /\ \A l \in 1 .. L :
                ~init_raises(mode, layer_ch_in(top, l), top.layers[l][1],
                             layer_rng(mode, seed, l))
          /\ learning = mode
          /\ funcs = [l \in 1 .. L |-> top.layers[l][2]]
          /\ updateable = [l \in 1 .. L |-> top.layers[l][3]]
          /\ weights = [l \in 1 .. L |->
                           init_w(mode, layer_ch_in(top, l), top.layers[l][1],
                                  layer_rng(mode, seed, l))]
          /\ backward_weights =
                IF mode \in FeedbackModes
                THEN [l \in 1 .. L |->
                         init_b(mode, layer_ch_in(top, l), top.layers[l][1],
                                layer_rng(mode, seed, l))]
                ELSE <<>>
          /\ rng = layer_rng(mode, seed, L + 1)
    /\ activations = <<>>
    /\ fit_log = [set |-> FALSE, log |-> <<>>]
    /\ args = NoArgs
    /\ pc = "idle"
    /\ iepoch = 0
    /\ i = 0
    /\ total_samples = 0
    /\ loss = 0
    /\ acc = 0
    /\ accum_batch_samples = 0
    /\ log = <<>>
    /\ delta = <<>>
    /\ deltas = <<>>
    /\ ui = 0
    /\ diff = NoDiff
    /\ nfits = 0
    /\ interrupted = FALSE
    /\ weights0 = weights
    /\ w_pre = weights
    /\ n_backward = 0
    /\ n_decay = 0

\* ------------------------------------------------------------ fit's steps
\* batchidx = range(i, min(N, i + batchsize)), as sample numbers from 1
batchidx(start, N, batchsize) ==
    [k \in 1 .. ((IF N < start + batchsize THEN N ELSE start + batchsize) - start) |->
        start + k]

\* a / float(n)
Div(a, n) == Mul(a % P, Inv(n % P))

\* N_validation: line 164-170
N_validation(validation) == IF validation = "given" THEN Len(validation_samples) ELSE 0

\* the record fit appends to log
record(n, l, a, type) == [n |-> n, loss |-> l, acc |-> a, type |-> type]

\* the positions of the try block, where KeyboardInterrupt is caught
TryBlock == {"epoch", "batch", "backward", "update", "decay", "epoch_end", "validate"}

\* a batch loop that leaves the epoch after its first batch
batch_or_end_first(start) == IF start = 0 THEN "batch" ELSE "epoch_end"

\* the position after the batch loop's header, line 176
batch_or_end(start) == IF start < N_train THEN "batch" ELSE "epoch_end"

LearningRates == {2}

GradientNoises == {0, 1}

\* the rates 0 and one half
WeightDecays == {0, Inv(2)}

\* clf.fit(xs_train, ys_train, ...): lines 161-172; a later call on the same
\* model repeats the arguments of the first
FitCall ==
    /\ pc = "idle"
    /\ nfits < MaxFits
    /\ ~interrupted
    /\ IF nfits = 0
       THEN \E batchsize \in 1 .. MaxBatch, n_epoch \in 1 .. MaxEpoch,
               learning_rate \in LearningRates, gradient_noise \in GradientNoises,
               weight_decay_rate \in WeightDecays,
               validation \in {"none", "empty", "given"} :
               args' = [batchsize |-> batchsize, n_epoch |-> n_epoch,
                        learning_rate |-> learning_rate,
                        gradient_noise |-> gradient_noise,
                        weight_decay |-> weight_decay_rate, validation |-> validation]
       ELSE args' = args
    /\ nfits' = nfits + 1
    /\ total_samples' = 0
    /\ log' = <<>>
    /\ iepoch' = 0
    /\ pc' = "epoch"
    /\ n_backward' = 0
    /\ n_decay' = 0
    /\ UNCHANGED <<ctorVars, modelVars, i, loss, acc, accum_batch_samples, delta, deltas,
                   ui, diff, interrupted, rng, weights0, w_pre>>

\* for iepoch in range(n_epoch): lines 174-176
EpochStart ==
    /\ pc = "epoch"
    /\ IF iepoch < args.n_epoch
       THEN /\ loss' = 0
            /\ acc' = 0
            /\ accum_batch_samples' = 0
            /\ i' = 0
            /\ pc' = batch_or_end(0)
       ELSE /\ pc' = "store"
            /\ UNCHANGED <<loss, acc, accum_batch_samples, i>>
    /\ UNCHANGED <<ctorVars, modelVars, args, iepoch, total_samples, log, delta, deltas,
                   ui, diff, nfits, interrupted, rng, histVars>>

\* the forward pass of a batch and its log record: lines 177-186
Batch ==
    /\ pc = "batch"
    /\ LET idx == batchidx(i, N_train, args.batchsize)
           xs_batch == xs_rows(idx, Cols(weights[1]) - 1)
           ys_batch == ys_rows(idx)
           acts == forward(weights, funcs, xs_batch)
           ps_batch == acts[Len(acts)]
       IN  /\ activations' = acts
           /\ delta' = Scale(Inv(Len(idx)), mse_loss_prime(ps_batch, ys_batch))
           /\ loss' = Add(loss, MatSum(mse_loss(ps_batch, ys_batch)))
           /\ acc' = acc + count_correct(ys_batch, ps_batch)
           /\ accum_batch_samples' = accum_batch_samples + Len(idx)
           /\ log' = Append(log, record(total_samples + accum_batch_samples',
                                        Div(loss', accum_batch_samples'),
                                        Div(acc', accum_batch_samples'),
                                        "train-intermediate"))
    /\ diff' = NoDiff
    /\ pc' = "backward"
    /\ UNCHANGED <<ctorVars, learning, funcs, updateable, weights, backward_weights,
                   fit_log, args, iepoch, i, total_samples, deltas, ui, nfits,
                   interrupted, rng, histVars>>

\* backward's first loop: lines 127-139
Backward ==
    /\ pc = "backward"
    /\ IF transport_raises(learning, weights)
       THEN /\ pc' = "error"
            /\ UNCHANGED <<deltas, ui>>
       ELSE /\ deltas' = backward_deltas(learning, weights, backward_weights, funcs,
                                         activations, delta)
            /\ ui' = 1
            /\ pc' = "update"
    /\ UNCHANGED <<ctorVars, modelVars, args, iepoch, i, total_samples, loss, acc,
                   accum_batch_samples, log, delta, diff, nfits, interrupted, rng,
                   histVars>>

\* the weights after self.weights[i] -= eta * diff
updated(ws, l, eta, d) == [ws EXCEPT ![l] = MatSub(@, Scale(eta, d))]

\* one pass of backward's second loop, over layer ui: lines 141-152
Update ==
    /\ pc = "update"
    /\ IF ~updateable[ui]
       THEN UNCHANGED <<weights, diff, rng>>
       ELSE LET d0 == backward_diff(deltas, activations, ui)
                d1 == IF args.gradient_noise # 0
                      THEN MatAdd(d0, Scale(args.gradient_noise,
                                            randn(Rows(d0), Cols(d0), rng)))
                      ELSE d0
            IN  /\ diff' = [layer |-> ui, value |-> d1]
                /\ rng' = IF args.gradient_noise # 0 THEN next_rng(rng) ELSE rng
                /\ weights' = updated(weights, ui, args.learning_rate, d1)
    /\ IF ui < Len(weights)
       THEN /\ ui' = ui + 1
            /\ pc' = "update"
            /\ UNCHANGED <<w_pre, n_backward>>
       ELSE /\ ui' = ui
            /\ pc' = "decay"
            /\ w_pre' = weights'
            /\ n_backward' = n_backward + 1
    /\ UNCHANGED <<ctorVars, learning, funcs, updateable, backward_weights, activations,
                   fit_log, args, iepoch, i, total_samples, loss, acc,
                   accum_batch_samples, log, delta, deltas, nfits, interrupted,
                   weights0, n_decay>>

\* the factor fit hands to weight_decay: (1.0 - weight_decay) ** len(batchidx)
decay_factor(rate, idx) == Pow(Sub(1, rate), Len(idx))

\* a weight decay that shrinks the feedback matrices with the weights
Decay_feedback_too ==
    /\ pc = "decay"
    /\ IF args.weight_decay # 0
       THEN LET factor == decay_factor(args.weight_decay,
                                       batchidx(i, N_train, args.batchsize))
            IN  /\ weights' = weight_decay(weights, factor)
                /\ backward_weights' =
                       [l \in 1 .. Len(backward_weights) |->
                           Scale(factor, backward_weights[l])]
                /\ n_decay' = n_decay + 1
       ELSE UNCHANGED <<weights, backward_weights, n_decay>>
    /\ i' = i + args.batchsize
    /\ pc' = batch_or_end(i')
    /\ UNCHANGED <<ctorVars, learning, funcs, updateable, activations, fit_log, args,
                   iepoch, total_samples, loss, acc, accum_batch_samples, log, delta,
                   deltas, ui, diff, nfits, interrupted, rng, weights0, w_pre,
                   n_backward>>

\* if weight_decay > 0: self.weight_decay(...), then the batch loop's header:
\* lines 190-191 and 176
Decay ==
    /\ pc = "decay"
    /\ IF args.weight_decay # 0
       THEN /\ weights' = weight_decay(weights,
                              decay_factor(args.weight_decay,
                                           batchidx(i, N_train, args.batchsize)))
            /\ n_decay' = n_decay + 1
       ELSE UNCHANGED <<weights, n_decay>>
    /\ i' = i + args.batchsize
    /\ pc' = batch_or_end(i')
    /\ UNCHANGED <<ctorVars, learning, funcs, updateable, backward_weights, activations,
                   fit_log, args, iepoch, total_samples, loss, acc, accum_batch_samples,
                   log, delta, deltas, ui, diff, nfits, interrupted, rng, weights0,
                   w_pre, n_backward>>

\* the epoch's train record: lines 193-197
EpochEnd ==
    /\ pc = "epoch_end"
    /\ loss' = Div(loss, N_train)
    /\ acc' = Div(acc, N_train)
    /\ total_samples' = total_samples + N_train
    /\ log' = Append(log, record(total_samples', loss', acc', "train"))
    /\ pc' = "validate"
    /\ UNCHANGED <<ctorVars, modelVars, args, iepoch, i, accum_batch_samples, delta,
                   deltas, ui, diff, nfits, interrupted, rng, histVars>>

\* loss, acc and the cache after the forward passes over the validation batches
\* from sample number start on: lines 201-208
RECURSIVE validation_from(_, _, _, _, _)
validation_from(ws, fs, batchsize, start, sofar) ==
    IF start >= Len(validation_samples) THEN sofar
    ELSE LET at == batchidx(start, Len(validation_samples), batchsize)
             idx == [k \in 1 .. Len(at) |-> validation_samples[at[k]]]
             xs_batch == xs_rows(idx, Cols(ws[1]) - 1)
             ys_batch == ys_rows(idx)
             acts == forward(ws, fs, xs_batch)
             ps_batch == acts[Len(acts)]
         IN  validation_from(ws, fs, batchsize, start + batchsize,
                 [loss |-> Add(sofar.loss, MatSum(mse_loss(ps_batch, ys_batch))),
                  acc |-> sofar.acc + count_correct(ys_batch, ps_batch),
                  activations |-> acts])

\* the epoch's validation record, then the epoch loop's header: lines 199-212
Validate ==
    /\ pc = "validate"
    /\ IF N_validation(args.validation) > 0
       THEN LET v == validation_from(weights, funcs, args.batchsize, 0,
                        [loss |-> 0, acc |-> 0, activations |-> activations])
            IN  /\ loss' = Div(v.loss, N_validation(args.validation))
                /\ acc' = Div(v.acc, N_validation(args.validation))
                /\ activations' = v.activations
                /\ log' = Append(log, record(total_samples, loss', acc', "validation"))
       ELSE UNCHANGED <<loss, acc, activations, log>>
    /\ iepoch' = iepoch + 1
    /\ pc' = "epoch"
    /\ UNCHANGED <<ctorVars, learning, funcs, updateable, weights, backward_weights,
                   fit_log, args, i, total_samples, accum_batch_samples, delta, deltas,
                   ui, diff, nfits, interrupted, rng, histVars>>

\* self.fit_log = pd.DataFrame(log), and fit returns: line 216
Store ==
    /\ pc = "store"
    /\ fit_log' = [set |-> TRUE, log |-> log]
    /\ pc' = "idle"
    /\ UNCHANGED <<ctorVars, learning, funcs, updateable, weights, backward_weights,
                   activations, args, iepoch, i, total_samples, loss, acc,
                   accum_batch_samples, log, delta, deltas, ui, diff, nfits,
                   interrupted, rng, histVars>>

\* KeyboardInterrupt is raised in the try block and caught: lines 213-214
Interrupt ==
    /\ pc \in TryBlock
    /\ ~interrupted
    /\ interrupted' = TRUE
    /\ pc' = "prompt"
    /\ UNCHANGED <<ctorVars, modelVars, args, iepoch, i, total_samples, loss, acc,
                   accum_batch_samples, log, delta, deltas, ui, diff, nfits, rng,
                   histVars>>

\* raw_input('terminate?') is answered y: the exception is raised again and
\* leaves fit, lines 214-215
AnswerYes ==
    /\ pc = "prompt"
    /\ pc' = "raised"
    /\ UNCHANGED <<ctorVars, modelVars, args, iepoch, i, total_samples, loss, acc,
                   accum_batch_samples, log, delta, deltas, ui, diff, nfits,
                   interrupted, rng, histVars>>

\* raw_input('terminate?') is answered otherwise: the except block ends, and
\* fit goes on after the try statement, at line 216
AnswerNo ==
    /\ pc = "prompt"
    /\ pc' = "store"
    /\ UNCHANGED <<ctorVars, modelVars, args, iepoch, i, total_samples, loss, acc,
                   accum_batch_samples, log, delta, deltas, ui, diff, nfits,
                   interrupted, rng, histVars>>

\* the cache after predict(xs_test) over the test batches from start on
RECURSIVE predict_from(_, _, _, _, _)
predict_from(ws, fs, batchsize, start, acts) ==
    IF start >= Len(validation_samples) THEN acts
    ELSE LET at == batchidx(start, Len(validation_samples), batchsize)
             idx == [k \in 1 .. Len(at) |-> validation_samples[at[k]]]
         IN  predict_from(ws, fs, batchsize, start + batchsize,
                          forward(ws, fs, xs_rows(idx, Cols(ws[1]) - 1)))

\* batchsize = 64
predict_batchsize == 64

\* clf.predict(xs_test): lines 220-226, on a model that is new or whose last
\* fit call was not interrupted
Predict ==
    /\ pc = "idle"
    /\ ~interrupted
    /\ activations' = predict_from(weights, funcs, predict_batchsize, 0, activations)
    /\ UNCHANGED <<ctorVars, learning, funcs, updateable, weights, backward_weights,
                   fit_log, args, localVars, nfits, interrupted, rng, histVars>>

\* ----------------------------------------------------------- specifications
\* fit, predict and the interrupt on a constructed model
Next ==
    \/ FitCall
    \/ EpochStart
    \/ Batch
    \/ Backward
    \/ Update
    \/ Decay
    \/ EpochEnd
    \/ Validate
    \/ Store
    \/ Interrupt
    \/ AnswerYes
    \/ AnswerNo
    \/ Predict

Spec == InitFit /\ [][Next]_vars

\* the constructor alone: no model is fitted
InitCtor ==
    /\ ctor = NoCall
    /\ obj = NoObject
    /\ learning = ""
    /\ funcs = <<>>
    /\ updateable = <<>>
    /\ weights = <<>>
    /\ backward_weights = <<>>
    /\ activations = <<>>
    /\ fit_log = [set |-> FALSE, log |-> <<>>]
    /\ args = NoArgs
    /\ pc = "no model"
    /\ iepoch = 0
    /\ i = 0
    /\ total_samples = 0
    /\ loss = 0
    /\ acc = 0
    /\ accum_batch_samples = 0
    /\ log = <<>>
    /\ delta = <<>>
    /\ deltas = <<>>
    /\ ui = 0
    /\ diff = NoDiff
    /\ nfits = 0
    /\ interrupted = FALSE
    /\ rng = 0
    /\ weights0 = <<>>
    /\ w_pre = <<>>
    /\ n_backward = 0
    /\ n_decay = 0

NextCtor ==
    \/ CtorCall
    \/ CtorLayer
    \/ CtorFinish

SpecCtor == InitCtor /\ [][NextCtor]_vars

\* ------------------------------------------------------------------ claims
\* the number of 'train-intermediate' records of a log
NIntermediate(lg) == Cardinality({k \in 1 .. Len(lg) : lg[k].type = "train-intermediate"})

\* the type and the sample count of every record of a log
LogShape(lg) == [k \in 1 .. Len(lg) |-> <<lg[k].type, lg[k].n>>]

\* the records of epoch e of an uninterrupted fit over N samples in batches of b
RECURSIVE ExpectedBatches(_, _, _, _)
ExpectedBatches(N, b, e, j) ==
    IF j = 0 THEN <<>>
    ELSE Append(ExpectedBatches(N, b, e, j - 1),
                <<"train-intermediate", (e - 1) * N + (IF j * b < N THEN j * b ELSE N)>>)

ExpectedEpoch(N, b, e, has_validation) ==
    ExpectedBatches(N, b, e, (N + b - 1) \div b)
        \o << <<"train", e * N>> >>
        \o (IF has_validation THEN << <<"validation", e * N>> >> ELSE <<>>)

RECURSIVE ExpectedLog(_, _, _, _)
ExpectedLog(N, b, E, has_validation) ==
    IF E = 0 THEN <<>>
    ELSE ExpectedLog(N, b, E - 1, has_validation) \o ExpectedEpoch(N, b, E, has_validation)

IsPrefix(s, t) == Len(s) <= Len(t) /\ s = SubSeq(t, 1, Len(s))

\* the log an uninterrupted run of the running fit call produces
FullLog == ExpectedLog(N_train, args.batchsize, args.n_epoch, args.validation = "given")

\* C1: the weight matrix of a layer whose updatable flag is false is the one
\* construction gave it, before and after any number of fit calls, in every
\* learning mode and with any gradient_noise and weight_decay.
C1_FrozenLayerUnchanged ==
    \A l \in 1 .. Len(weights) : ~updateable[l] => weights[l] = weights0[l]

\* C2: when an interrupt arrives during fit and the user confirms termination,
\* fit ends early with the log accumulated so far available as the fit log, a
\* prefix of the uninterrupted run's log.
C2_ConfirmedInterruptKeepsLog ==
    pc = "raised" =>
        /\ fit_log.set
        /\ fit_log.log = log
        /\ IsPrefix(LogShape(fit_log.log), FullLog)

\* C3: when an interrupt arrives during fit and the user declines termination,
\* training resumes, and fit returns with all n_epoch epochs done: the last log
\* entry is the last entry of the uninterrupted run.
C3_DeclinedInterruptResumes ==
    (pc = "idle" /\ interrupted) =>
        /\ fit_log.set
        /\ LogShape(fit_log.log) = FullLog

\* C4: the log of an uninterrupted fit is, for each epoch e = 1..n_epoch in
\* order, ceil(N_train/b) 'train-intermediate' records counting (e-1)*N_train
\* plus the samples processed so far in the epoch, one 'train' record counting
\* e*N_train and, if and only if a non-empty validation set was given, one
\* 'validation' record counting e*N_train; the count never decreases along the
\* log.
C4_LogStructure ==
    /\ nfits > 0 => IsPrefix(LogShape(log), FullLog)
    /\ \A k \in 1 .. (Len(log) - 1) : log[k].n <= log[k + 1].n
    /\ (pc = "idle" /\ nfits > 0 /\ ~interrupted) =>
           /\ fit_log.set
           /\ LogShape(fit_log.log) = FullLog

\* an uninterrupted fit has returned its whole log, with a short last batch in
\* every epoch and a validation record
C4_Witness ==
    /\ pc = "idle"
    /\ nfits = 2
    /\ ~interrupted
    /\ args.n_epoch = 2
    /\ N_train % args.batchsize # 0
    /\ args.validation = "given"
    /\ Len(fit_log.log) = Len(FullLog)

\* C5: a weight-decay application of fit with rate d > 0 scales the non-bias
\* columns of every weight matrix by (1-d)^k, k the length of the batch just
\* processed, and leaves the bias column unchanged; with d = 0 the weights are
\* left as backward left them.
C5_BiasExemption ==
    ((pc = "batch" /\ i > 0) \/ pc = "epoch_end") =>
        LET k == (IF N_train < i THEN N_train ELSE i) - (i - args.batchsize)
        IN  \A l \in 1 .. Len(weights) :
            \A r \in 1 .. Len(weights[l]) :
            \A c \in 1 .. Len(weights[l][r]) :
                weights[l][r][c] =
                    IF args.weight_decay # 0 /\ c < Len(weights[l][r])
                    THEN Mul(w_pre[l][r][c], Pow(Sub(1, args.weight_decay), k))
                    ELSE w_pre[l][r][c]

\* weight decay has just been applied after a short last batch, to a matrix
\* whose bias and non-bias entries are not zero and whose non-bias entries changed
C5_Witness ==
    /\ pc = "epoch_end"
    /\ args.weight_decay # 0
    /\ args.batchsize > 1
    /\ N_train % args.batchsize # 0
    /\ \E l \in 1 .. Len(weights) :
          /\ weights[l][1][1] # w_pre[l][1][1]
          /\ weights[l][1][Len(weights[l][1])] # 0

\* C6: constructing a model with a learning-mode name that is none of the five
\* fails, for every input dimension and every list of layers, the empty list
\* included.
C6_UnknownModeFails ==
    (ctor.pc \in {"built", "raised"} /\ ctor.learning \notin LearningModes) =>
        ctor.pc = "raised"

\* the dims of the running constructor call: input_dim, then every ch_out
ctor_dims == <<ctor.input_dim>> \o [k \in 1 .. Len(ctor.layers) |-> ctor.layers[k][1]]

\* C7: after construction in any of the five modes, weights, updateable and
\* funcs have one entry per layer and weights[i] has shape (dims[i+1],
\* dims[i]+1); in FA, FA-PI-W and FA-PI-B backward_weights has one entry per
\* layer and backward_weights[i] has shape (dims[i+1], dims[i]).
C7_Shapes ==
    (ctor.pc = "built" /\ ctor.learning \in LearningModes) =>
        LET L == Len(ctor.layers) IN
        /\ Len(obj.weights) = L
        /\ Len(obj.updateable) = L
        /\ Len(obj.funcs) = L
        /\ \A k \in 1 .. L : obj.weights[k] = <<ctor_dims[k + 1], ctor_dims[k] + 1>>
        /\ ctor.learning \in FeedbackModes =>
               /\ Len(obj.backward_weights) = L
               /\ \A k \in 1 .. L :
                      obj.backward_weights[k] = <<ctor_dims[k + 1], ctor_dims[k]>>

\* a model of two layers that are not square was built with matrices derived
\* from a pseudo inverse
C7_Witness ==
    /\ ctor.pc = "built"
    /\ ctor.learning \in {"FA-PI-W", "FA-PI-B"}
    /\ Len(ctor.layers) = 2
    /\ \A k \in 1 .. 2 : ctor_dims[k] # ctor_dims[k + 1]
    /\ Len(obj.backward_weights) = 2

\* C8: in FA, FA-PI-W and FA-PI-B no step of fit, forward, backward,
\* weight_decay or predict changes a stored feedback matrix.
C8_FeedbackFixed ==
    [][(learning \in FeedbackModes) => (backward_weights' = backward_weights)]_vars

\* two fit calls with weight decay have changed the weights of a model that
\* holds feedback matrices
C8_Witness ==
    /\ learning \in FeedbackModes
    /\ pc = "idle"
    /\ nfits = 2
    /\ n_decay > 0
    /\ n_backward > 0
    /\ weights # weights0
    /\ Len(backward_weights) = Len(weights)

\* C9: whenever fit has stopped because of an interrupt, every batch with a
\* 'train-intermediate' record in the log has had its backward pass, and its
\* weight decay when enabled, applied in full.
C9_InterruptAtBatchBoundary ==
    (interrupted /\ pc \in {"prompt", "raised", "store", "idle"}) =>
        /\ n_backward = NIntermediate(log)
        /\ args.weight_decay # 0 => n_decay = NIntermediate(log)

\* the chain rule: the error at the output of layer l is the error handed back
\* from layer l + 1 (the loss gradient, for the last layer) times the
\* derivative of layer l's activation at layer l's cached output
RECURSIVE chain_delta(_)
chain_delta(l) ==
    Hadamard(df(funcs[l], activations[l + 1]),
             IF l = Len(weights) THEN delta
             ELSE Dot(chain_delta(l + 1), NoBias(weights[l + 1])))

chain_gradient(l) == Dot(T(chain_delta(l)), add_bias(activations[l]))

\* C10: under BP the gradient backward applies to the weights of a layer is
\* the chain-rule gradient of the loss.
C10_BackPropagationGradient ==
    (learning = "BP" /\ args.gradient_noise = 0 /\ pc \in {"update", "decay"}
        /\ diff.layer # 0) =>
        diff.value = chain_gradient(diff.layer)

====
